---- MODULE Spec2Model ----
(***************************************************************************)
(* CTC beam search decoder (tensorflow/core/util/ctc/ctc_beam_search.h).   *)
(*                                                                         *)
(* Log-probabilities.  A float log-probability x is represented by the     *)
(* exact rational exp(x), written <<n, d>> in lowest terms with d > 0:     *)
(*   kLogZero (-infinity)  is <<0, 1>>,   0.0 = ln(1)  is <<1, 1>>,        *)
(*   x + y  is the product,  x - y  the quotient,                          *)
(*   LogSumExp(x, y)  is the sum,  x > y  is the order of the rationals.   *)
(* Float rounding is not modelled.                                         *)
(*                                                                         *)
(* Tree nodes (BeamEntry) are named by the labels on their parent chain,   *)
(* root first: the root is << >>, its child with label 0 is <<0>>, ...     *)
(***************************************************************************)
EXTENDS Integers, Sequences, FiniteSets, TLC

VARIABLES num_classes,   \* CTCDecoder::num_classes_ (blank included)
          beam_width,    \* beam_width_
          nodes,         \* the tree under beam_root_: node |-> [oldp, newp]
          leaves,        \* leaves_: the entries the TopN holds, with repeats
          steps,         \* number of Step calls since the last Reset
          history,       \* the raw inputs of those Step calls
          pushLog,       \* the child pushes of the last Step (lines 252-259)
          out,           \* what the last call returned
          aborted,       \* a CHECK failed: the process is gone
          dec,           \* the call of Decode in progress, if any
          registry,      \* op_kernel.cc: the global kernel registry
          kout           \* op_kernel.cc: what the last call returned

vars == <<num_classes, beam_width, nodes, leaves, steps, history, pushLog,
          out, aborted, dec, registry, kout>>

----------------------------------------------------------------------------
(* Bounds *)

MaxClasses == 3
MaxBeamWidth == 3
MaxSteps == 3

\* the most Steps after a Reset in the alignment specification
MaxAlignSteps == 4

\* the largest batch_size and the longest sequence Decode is called with
MaxBatch == 2
MaxSeqLen == 2

\* the most kernels registered in the global kernel registry
MaxRegistrations == 3

----------------------------------------------------------------------------
(* Log-probability arithmetic *)

RECURSIVE GCD(_, _)
GCD(a, b) == IF b = 0 THEN a ELSE GCD(b, a % b)

Norm(n, d) == IF n = 0 THEN <<0, 1>>
              ELSE LET g == GCD(n, d) IN <<n \div g, d \div g>>

kLogZero == <<0, 1>>
kLogOne == <<1, 1>>

\* x + y on log-probabilities
LogAdd(a, b) == Norm(a[1] * b[1], a[2] * b[2])

\* x - y on log-probabilities (y above kLogZero)
LogSub(a, b) == Norm(a[1] * b[2], a[2] * b[1])

\* x > y on log-probabilities
LogGreater(a, b) == a[1] * b[2] > b[1] * a[2]

LogSumExp(a, b) ==
    IF a = kLogZero /\ b = kLogZero THEN kLogZero
    ELSE Norm(a[1] * b[2] + b[1] * a[2], a[2] * b[2])

----------------------------------------------------------------------------
(* BeamProbability and BeamEntry *)

\* BeamProbability::Reset and the state of a default-constructed pair
ResetProbability == [total |-> kLogZero, blank |-> kLogZero, label |-> kLogZero]

\* a BeamEntry as PopulateChildren creates it
NewEntry == [oldp |-> ResetProbability, newp |-> ResetProbability]

Root == << >>

Parent(n) == SubSeq(n, 1, Len(n) - 1)

\* BeamEntry::label; the root carries -1
Label(n) == IF n = Root THEN -1 ELSE n[Len(n)]

\* BeamEntry::Active
Active(e) == LogGreater(e.newp.total, kLogZero)

ChildrenOf(n, L) == {Append(n, l) : l \in 0..(L - 1)}

HasChildren(ns, n) == Append(n, 0) \in DOMAIN ns

\* BeamEntry::PopulateChildren(L): L children, labels 0..L-1, pairs reset
PopulateChildren(ns, n, L) ==
    [m \in DOMAIN ns \cup ChildrenOf(n, L) |->
        IF m \in DOMAIN ns THEN ns[m] ELSE NewEntry]

\* the labels of the parent chain whatever merge_repeated
LabelSeqNeverMerged(n, merge_repeated) ==
    [i \in 1..Len(n) |-> Label(SubSeq(n, 1, i))]

\* BeamEntry::LabelSeq(merge_repeated): labels of the parent chain in
\* root-to-node order; with merge_repeated a label equal to the one before
\* it is dropped
RECURSIVE LabelSeq(_, _)
LabelSeq(n, merge_repeated) ==
    IF n = Root THEN << >>
    ELSE IF merge_repeated /\ Label(n) = Label(Parent(n))
         THEN LabelSeq(Parent(n), merge_repeated)
         ELSE Append(LabelSeq(Parent(n), merge_repeated), Label(n))

----------------------------------------------------------------------------
(* The scorer: BaseBeamScorer adds nothing *)

GetStateExpansionScore(previous) == previous

GetStateEndExpansionScore == kLogOne

----------------------------------------------------------------------------
(* gtl::TopN over BeamEntry pointers, ordered by BeamComparer *)

\* stable secondary key of an entry
RECURSIVE Key(_, _)
Key(n, nc) == IF n = Root THEN 0 ELSE Key(Parent(n), nc) * nc + Label(n) + 1

\* BeamComparer: a ranks above b
BeamComparer(ns, nc, a, b) ==
    \/ LogGreater(ns[a].newp.total, ns[b].newp.total)
    \/ /\ ns[a].newp.total = ns[b].newp.total
       /\ Key(a, nc) < Key(b, nc)

RemoveAt(s, i) == SubSeq(s, 1, i - 1) \o SubSeq(s, i + 1, Len(s))

\* position of the lowest-ranked element
BottomIndex(ns, nc, s) ==
    CHOOSE i \in 1..Len(s) :
        /\ \A j \in 1..Len(s) : ~BeamComparer(ns, nc, s[i], s[j])
        /\ \A j \in 1..(i - 1) : \E k \in 1..Len(s) : BeamComparer(ns, nc, s[j], s[k])

\* position of the highest-ranked element
TopIndex(ns, nc, s) ==
    CHOOSE i \in 1..Len(s) :
        /\ \A j \in 1..Len(s) : ~BeamComparer(ns, nc, s[j], s[i])
        /\ \A j \in 1..(i - 1) : \E k \in 1..Len(s) : BeamComparer(ns, nc, s[k], s[j])

\* TopN::peek_bottom
peek_bottom(ns, nc, s) == s[BottomIndex(ns, nc, s)]

\* TopN::push with the given limit: insert, then drop the minimum when the
\* limit is exceeded
push(ns, nc, s, limit, n) ==
    LET t == Append(s, n)
    IN IF Len(t) > limit THEN RemoveAt(t, BottomIndex(ns, nc, t)) ELSE t

\* TopN::Extract: the elements in descending order
RECURSIVE Extract(_, _, _)
Extract(ns, nc, s) ==
    IF s = << >> THEN << >>
    ELSE LET i == TopIndex(ns, nc, s)
         IN <<s[i]>> \o Extract(ns, nc, RemoveAt(s, i))

----------------------------------------------------------------------------
(* Inputs *)

\* the log of a vector that gives hi/10 to class peak and lo/10 to every
\* other class
InputVector(len, peak, hi, lo) ==
    [i \in 1..len |-> IF i = peak THEN Norm(hi, 10) ELSE Norm(lo, 10)]

\* the vectors Step is called with: 0.7 on the blank (the last class) and
\* 0.3 on the others; 0.6 on the blank and 0.4 on the others; 0.7 on the
\* first label and 0.3 on the others; everything on the first label
Inputs(len) ==
    {InputVector(len, len, 7, 3), InputVector(len, len, 6, 4),
     InputVector(len, 1, 7, 3), InputVector(len, 1, 10, 0)}

RECURSIVE maxCoeffUpTo(_, _)
maxCoeffUpTo(v, i) ==
    IF i = 1 THEN v[1]
    ELSE LET m == maxCoeffUpTo(v, i - 1)
         IN IF LogGreater(v[i], m) THEN v[i] ELSE m

maxCoeff(v) == maxCoeffUpTo(v, Len(v))

\* the input used as given
RemoveMaxSkipped(raw_input) == raw_input

\* input -= input.maxCoeff()
RemoveMax(raw_input) ==
    [i \in 1..Len(raw_input) |-> LogSub(raw_input[i], maxCoeff(raw_input))]

----------------------------------------------------------------------------
(* CTCBeamSearchDecoder *)

\* CTCDecoder::blank_index_
blank_index == num_classes - 1

\* a TopN built one element too wide
LeavesLimitOneMore(bw) == bw + 1

\* the limit leaves_ is constructed with
LeavesLimit(bw) == bw

\* the old pairs left as they were
ShiftProbabilitiesSkipped(ns, branches) == ns

\* b->oldp = b->newp for every extracted branch
ShiftProbabilities(ns, branches) ==
    [n \in DOMAIN ns |->
        IF \E i \in 1..Len(branches) : branches[i] = n
        THEN [ns[n] EXCEPT !.oldp = ns[n].newp]
        ELSE ns[n]]

\* the parent's total taken whatever the labels
PreviousAlwaysTotal(oldp, same_label) == oldp.total

\* the probability an extension starts from: the parent's Pblank when the
\* label repeats the parent's label, else the parent's total
PreviousOf(oldp, same_label) ==
    IF same_label THEN oldp.blank ELSE oldp.total

\* the parent's contribution left out of Plabel
ExtendLabelWithoutPrevious(cur, previous) == cur

\* Plabel of an entry whose parent is active
ExtendLabel(cur, previous) ==
    LogSumExp(cur, GetStateExpansionScore(previous))

\* the total taken from the blank component alone
CombineTotalBlankOnly(blank, label) == blank

\* P(l @ t) = Plabel(l @ t) + Pblank(l @ t)
CombineTotal(blank, label) == LogSumExp(blank, label)

\* only the best branch goes back into the beam
PushBackBestOnly(ns, lv, b) ==
    IF lv = << >> THEN push(ns, num_classes, lv, LeavesLimit(beam_width), b)
    ELSE lv

\* leaves_.push(b): the updated branch goes back into the beam
PushBack(ns, lv, b) ==
    push(ns, num_classes, lv, LeavesLimit(beam_width), b)

\* one iteration of the first loop over the branches
UpdateBranch(s, b, input) ==
    LET e == s.nodes[b]
        previous == PreviousOf(s.nodes[Parent(b)].oldp,
                               Label(b) = Label(Parent(b)))
        label == IF b = Root THEN e.newp.label
                 ELSE LogAdd(IF Active(s.nodes[Parent(b)])
                             THEN ExtendLabel(e.newp.label, previous)
                             ELSE e.newp.label,
                             input[Label(b) + 1])
        blank == LogAdd(e.oldp.total, input[blank_index + 1])
        newp == [total |-> CombineTotal(blank, label),
                 blank |-> blank, label |-> label]
        ns == [s.nodes EXCEPT ![b].newp = newp]
    IN [s EXCEPT !.nodes = ns, !.leaves = PushBack(ns, s.leaves, b)]

RECURSIVE UpdateBranches(_, _, _, _)
UpdateBranches(s, branches, i, input) ==
    IF i > Len(branches) THEN s
    ELSE UpdateBranches(UpdateBranch(s, branches[i], input),
                        branches, i + 1, input)

\* the lambda is_candidate
is_candidate(s, prob) ==
    /\ LogGreater(prob.total, kLogZero)
    /\ \/ Len(s.leaves) < beam_width
       \/ LogGreater(prob.total,
                     s.nodes[peek_bottom(s.nodes, num_classes, s.leaves)].newp.total)

\* the deactivation test that follows the push of a child
BottomLeftBeam(sizeBefore, sizeAfter) == sizeAfter = beam_width

\* an admitted child is pushed (lines 252-259)
PushChild(s, c) ==
    LET bottom == peek_bottom(s.nodes, num_classes, s.leaves)
        pushed == push(s.nodes, num_classes, s.leaves,
                       LeavesLimit(beam_width), c)
        reset == BottomLeftBeam(Len(s.leaves), Len(pushed))
    IN [nodes |-> IF reset
                  THEN [s.nodes EXCEPT ![bottom].newp = ResetProbability]
                  ELSE s.nodes,
        leaves |-> pushed,
        log |-> Append(s.log, [child |-> c, bottom |-> bottom,
                               sizeBefore |-> Len(s.leaves),
                               reset |-> reset])]

\* a rejected child left as it was computed
DeactivateChildSkipped(s, c) == s

\* a child that fails the admission test (lines 260-264)
DeactivateChild(s, c) ==
    [s EXCEPT !.nodes = [s.nodes EXCEPT ![c].oldp = ResetProbability,
                                        ![c].newp = ResetProbability]]

\* the body of the loop over the children of b, for the child c
GrowChild(s, b, c, input) ==
    IF Active(s.nodes[c]) THEN s
    ELSE LET previous == PreviousOf(s.nodes[b].oldp, Label(c) = Label(b))
             label == LogAdd(input[Label(c) + 1],
                             GetStateExpansionScore(previous))
             newp == [total |-> label, blank |-> kLogZero, label |-> label]
             s1 == [s EXCEPT !.nodes = [s.nodes EXCEPT ![c].newp = newp]]
         IN IF is_candidate(s1, newp) THEN PushChild(s1, c)
            ELSE DeactivateChild(s1, c)

RECURSIVE GrowChildren(_, _, _, _)
GrowChildren(s, b, l, input) ==
    IF Append(b, l) \notin DOMAIN s.nodes THEN s
    ELSE GrowChildren(GrowChild(s, b, Append(b, l), input), b, l + 1, input)

\* one child per class, the blank included
ChildLabelSpaceWithBlank(nc) == nc

\* the label space PopulateChildren is called with: num_classes_ - 1
ChildLabelSpace(nc) == nc - 1

\* every extracted branch expanded, whatever its old probabilities
GrowBranchWithoutTest(s, b, input) ==
    GrowChildren(IF HasChildren(s.nodes, b) THEN s
                 ELSE [s EXCEPT !.nodes =
                          PopulateChildren(s.nodes, b, num_classes - 1)],
                 b, 0, input)

\* one iteration of the loop that grows new leaves
GrowBranch(s, b, input) ==
    IF ~is_candidate(s, s.nodes[b].oldp) THEN s
    ELSE LET s1 == IF HasChildren(s.nodes, b) THEN s
                   ELSE [s EXCEPT !.nodes =
                            PopulateChildren(s.nodes, b,
                                             ChildLabelSpace(num_classes))]
         IN GrowChildren(s1, b, 0, input)

RECURSIVE GrowBranches(_, _, _, _)
GrowBranches(s, branches, i, input) ==
    IF i > Len(branches) THEN s
    ELSE GrowBranches(GrowBranch(s, branches[i], input),
                      branches, i + 1, input)

\* Step after its CHECK_EQ, on the tree ns and the beam lv
StepFrom(ns, lv, raw_input) ==
    LET input == RemoveMax(raw_input)
        branches == Extract(ns, num_classes, lv)
        s0 == [nodes |-> ShiftProbabilities(ns, branches),
               leaves |-> << >>, log |-> << >>]
        s1 == UpdateBranches(s0, branches, 1, input)
    IN GrowBranches(s1, branches, 1, input)

StepResult(raw_input) == StepFrom(nodes, leaves, raw_input)

----------------------------------------------------------------------------
(* The kernel registry and the creation of kernels
   (tensorflow/core/framework/op_kernel.cc).  A Status is written as its
   code; messages are not modelled. *)

\* an AttrValue: the fields of the proto that the lookup reads; type() of a
\* value that is not a single type is DT_INVALID
AttrValue(kind, type, types, str) ==
    [kind |-> kind, type |-> type, types |-> types, s |-> str]

TypeAttr(t) == AttrValue("type", t, << >>, "")
TypeListAttr(ts) == AttrValue("list(type)", "DT_INVALID", ts, "")
IntAttr == AttrValue("int", "DT_INVALID", << >>, "")
StringAttr(str) == AttrValue("string", "DT_INVALID", << >>, str)

\* AttrValueHasType(value, type).ok()
AttrValueHasType(value, type) == value.kind = type

\* Key(op_type, device_type, label)
KernelKey(op_type, device_type, label) ==
    op_type \o ":" \o device_type \o ":" \o label

InTypeList(dt, type_list) ==
    \E k \in 1..Len(type_list) : type_list[k] = dt

\* the loop of AttrsMatch from constraint i on
RECURSIVE AttrsMatchFrom(_, _, _)
AttrsMatchFrom(node_def, kernel_def, i) ==
    IF i > Len(kernel_def.constraint)
    THEN [status |-> "OK", match |-> TRUE]
    ELSE LET constraint == kernel_def.constraint[i]
             found == node_def.attr[constraint.name]
             rest == AttrsMatchFrom(node_def, kernel_def, i + 1)
         IN IF constraint.allowed_values = << >>
            THEN [status |-> "UNIMPLEMENTED", match |-> FALSE]
            ELSE IF constraint.name \notin DOMAIN node_def.attr
            THEN [status |-> "INVALID_ARGUMENT", match |-> FALSE]
            ELSE IF found.type # "DT_INVALID"
            THEN IF ~InTypeList(found.type, constraint.allowed_values)
                 THEN [status |-> "OK", match |-> FALSE]
                 ELSE rest
            ELSE IF ~AttrValueHasType(found, "list(type)")
            THEN [status |-> "INVALID_ARGUMENT", match |-> FALSE]
            ELSE IF \E k \in 1..Len(found.types) :
                       ~InTypeList(found.types[k], constraint.allowed_values)
            THEN [status |-> "OK", match |-> FALSE]
            ELSE rest

AttrsMatch(node_def, kernel_def) == AttrsMatchFrom(node_def, kernel_def, 1)

\* GetNodeAttr(node_def, "_kernel", &label): the label stays empty when the
\* attribute is not found
KernelLabel(node_def) ==
    IF "_kernel" \in DOMAIN node_def.attr
       /\ AttrValueHasType(node_def.attr["_kernel"], "string")
    THEN node_def.attr["_kernel"].s
    ELSE ""

RECURSIVE IndicesFrom(_, _, _)
IndicesFrom(rg, key, i) ==
    IF i > Len(rg) THEN << >>
    ELSE (IF KernelKey(rg[i].def.op, rg[i].def.device_type,
                       rg[i].def.label) = key
          THEN <<i>> ELSE << >>) \o IndicesFrom(rg, key, i + 1)

\* equal_range(key): the registrations under the key, by their place in the
\* registry; the order of the registry stands for the order in which the
\* multimap hands them out
EqualRange(rg, key) == IndicesFrom(rg, key, 1)

\* a second match taken without complaint
MultipleMatchIgnored(reg) == FALSE

\* *reg != nullptr when a registration matches
MultipleMatch(reg) == reg # 0

\* the loop of FindKernelRegistration from the k-th registration of regs
\* on; reg is 0 for nullptr, else a place in the registry
RECURSIVE FindFrom(_, _, _, _, _)
FindFrom(rg, regs, k, node_def, reg) ==
    IF k > Len(regs) THEN [status |-> "OK", reg |-> reg]
    ELSE LET m == AttrsMatch(node_def, rg[regs[k]].def)
         IN IF m.status # "OK" THEN [status |-> m.status, reg |-> reg]
            ELSE IF m.match
            THEN IF MultipleMatch(reg)
                 THEN [status |-> "INVALID_ARGUMENT", reg |-> reg]
                 ELSE FindFrom(rg, regs, k + 1, node_def, regs[k])
            ELSE FindFrom(rg, regs, k + 1, node_def, reg)

FindKernelRegistration(rg, device_type, node_def) ==
    FindFrom(rg,
             EqualRange(rg, KernelKey(node_def.op, device_type,
                                      KernelLabel(node_def))),
             1, node_def, 0)

\* what a call of op_kernel.cc hands back: the status, the registration
\* chosen (0 for none), the kernel (0 for nullptr, 1 for the kernel the
\* factory made), the factory invoked ("" for none) and whether the kernel
\* was deleted
KernelReturned(op, device_type, node_def, fail, status, reg, kernel, factory, deleted) ==
    [op |-> op, device_type |-> device_type, node_def |-> node_def,
     fail |-> fail, status |-> status, reg |-> reg, kernel |-> kernel,
     factory |-> factory, deleted |-> deleted]

FindKernelDef(rg, device_type, node_def) ==
    LET f == FindKernelRegistration(rg, device_type, node_def)
    IN IF f.status # "OK"
       THEN KernelReturned("FindKernelDef", device_type, node_def, "none",
                           f.status, 0, 0, "", FALSE)
       ELSE IF f.reg = 0
       THEN KernelReturned("FindKernelDef", device_type, node_def, "none",
                           "NOT_FOUND", 0, 0, "", FALSE)
       ELSE KernelReturned("FindKernelDef", device_type, node_def, "none",
                           "OK", f.reg, 0, "", FALSE)

\* the kernel handed back with the error its construction recorded
ConstructionFailureIgnored(kernel) == [kernel |-> kernel, deleted |-> FALSE]

\* delete *kernel; *kernel = nullptr
ConstructionFailed(kernel) == [kernel |-> 0, deleted |-> TRUE]

\* CreateOpKernel(device_type, device, allocator, flib, node_def,
\* graph_def_version, &kernel).  env tells which of the steps outside this
\* file fails, and with which code: the op lookup ("op"), ValidateNodeDef
\* ("node"), InOutTypesForNode ("inout"), MemoryTypesForNode ("memtypes"),
\* the kernel's constructor ("construct"), or none.  kernel is what the
\* caller's pointer holds before the call.
CreateOpKernel(rg, device_type, node_def, env, kernel) ==
    LET f == FindKernelRegistration(rg, device_type, node_def)
        back(status, reg, k, factory, deleted) ==
            KernelReturned("CreateOpKernel", device_type, node_def,
                           env.fail, status, reg, k, factory, deleted)
    IN IF env.fail \in {"op", "node"}
       THEN back(env.code, 0, kernel, "", FALSE)
       ELSE IF f.status # "OK"
       THEN back(f.status, 0, kernel, "", FALSE)
       ELSE IF f.reg = 0
       THEN back("NOT_FOUND", 0, kernel, "", FALSE)
       ELSE IF env.fail \in {"inout", "memtypes"}
       THEN back(env.code, f.reg, kernel, "", FALSE)
       ELSE IF env.fail = "construct"
       THEN LET r == ConstructionFailed(1)
            IN back(env.code, f.reg, r.kernel, rg[f.reg].factory, r.deleted)
       ELSE back("OK", f.reg, 1, rg[f.reg].factory, FALSE)

\* the overload that returns a unique_ptr: kernel starts as nullptr
CreateOpKernelPtr(rg, device_type, node_def, env) ==
    CreateOpKernel(rg, device_type, node_def, env, 0)

NoNodeDef == [op |-> "", attr |-> << >>]

\* no call yet
NoKernelCall ==
    KernelReturned("none", "", NoNodeDef, "none", "OK", 0, 0, "", FALSE)

\* an empty registry and no call yet
NoKernels == registry = << >> /\ kout = NoKernelCall

----------------------------------------------------------------------------
(* What a call hands back *)

Returned(op, n, merge_repeated, failed, paths, log_probs) ==
    [op |-> op, n |-> n, merge_repeated |-> merge_repeated,
     failed |-> failed, paths |-> paths, log_probs |-> log_probs]

\* the tree and the beam Reset builds: a root with total and blank at ln(1)
ResetTree ==
    [n \in {Root} |->
        [oldp |-> ResetProbability,
         newp |-> [total |-> kLogOne, blank |-> kLogOne, label |-> kLogZero]]]

\* no tree: beam_root_ is null
NoTree == [n \in {} |-> NewEntry]

\* a Reset that makes a new root above the children of the old tree
ResetResultKeepingTree(ns, lv) ==
    [nodes |-> [n \in DOMAIN ns \cup {Root} |->
                   IF n = Root THEN ResetTree[Root] ELSE ns[n]],
     leaves |-> push(ResetTree, num_classes, << >>,
                     LeavesLimit(beam_width), Root)]

\* Reset on the tree ns and the beam lv: leaves_ is emptied, the tree is
\* replaced by a new root, the root is pushed
ResetResult(ns, lv) ==
    [nodes |-> ResetTree,
     leaves |-> push(ResetTree, num_classes, << >>,
                     LeavesLimit(beam_width), Root)]

\* no call of Decode
NoDecode == [pc |-> "none"]

----------------------------------------------------------------------------
(* Actions *)

\* CTCBeamSearchDecoder(num_classes, beam_width): ends with Reset()
ConstructAndReset(nc, bw) ==
    /\ num_classes = nc
    /\ beam_width = bw
    /\ \E r \in {ResetResult(NoTree, << >>)} :
          nodes = r.nodes /\ leaves = r.leaves
    /\ out = Returned("Construct2", 0, FALSE, FALSE, << >>, << >>)

\* nothing has been called on the decoder
NothingCalled ==
    /\ steps = 0
    /\ history = << >>
    /\ pushLog = << >>
    /\ aborted = FALSE
    /\ dec = NoDecode
    /\ NoKernels

Init ==
    /\ \E nc \in 2..MaxClasses, bw \in 1..MaxBeamWidth :
          ConstructAndReset(nc, bw)
    /\ NothingCalled

Reset ==
    /\ ~aborted
    /\ \E r \in {ResetResult(nodes, leaves)} :
          nodes' = r.nodes /\ leaves' = r.leaves
    /\ steps' = 0
    /\ history' = << >>
    /\ pushLog' = << >>
    /\ out' = Returned("Reset", 0, FALSE, FALSE, << >>, << >>)
    /\ UNCHANGED <<registry, kout, num_classes, beam_width, aborted, dec>>

\* Step on a vector of num_classes entries
Step ==
    /\ ~aborted
    /\ steps < MaxSteps
    /\ \E raw_input \in Inputs(num_classes) :
          \E s \in {StepResult(raw_input)} :
             /\ nodes' = s.nodes
             /\ leaves' = s.leaves
             /\ pushLog' = s.log
             /\ history' = Append(history, raw_input)
    /\ steps' = steps + 1
    /\ out' = Returned("Step", 0, FALSE, FALSE, << >>, << >>)
    /\ UNCHANGED <<registry, kout, num_classes, beam_width, aborted, dec>>

\* the beam already extracted and emptied when the length is checked
LeavesAfterExtract(lv) == << >>

\* the beam when CHECK_EQ fails: leaves_.Extract() and leaves_.Reset() come
\* after it
LeavesAtCheck(lv) == lv

\* Step on a vector of another length: CHECK_EQ(num_classes_, input.size())
StepBadLength ==
    /\ ~aborted
    /\ steps < MaxSteps
    /\ \E len \in {num_classes - 1, num_classes + 1} :
          \E raw_input \in Inputs(len) : Len(raw_input) # num_classes
    /\ aborted' = TRUE
    /\ out' = Returned("Step", 0, FALSE, TRUE, << >>, << >>)
    /\ leaves' = LeavesAtCheck(leaves)
    /\ UNCHANGED <<registry, kout, num_classes, beam_width, nodes, steps, history, pushLog,
                   dec>>

\* the two CHECK_LE of TopPaths
TopPathsChecks(n, bw, size) == n <= bw /\ n <= size

\* top_branches after every leaf was pushed, in the order leaves_ holds them
RECURSIVE PushAllFrom(_, _, _, _, _)
PushAllFrom(ns, top, s, i, limit) ==
    IF i > Len(s) THEN top
    ELSE PushAllFrom(ns, push(ns, num_classes, top, limit, s[i]), s, i + 1,
                     limit)

PushAll(top, s, i, limit) == PushAllFrom(nodes, top, s, i, limit)

\* the previous timestep's total reported
PathLogProbOld(e) == e.oldp.total

\* the log-probability TopPaths reports for an entry
PathLogProb(e) == e.newp.total

\* the caller's vectors left as they were
NotCleared(v) == v

\* paths->clear() and log_probs->clear() on the caller's vectors
Cleared(v) == << >>

\* TopPaths(n, paths, log_probs, merge_repeated) on the tree ns and the
\* beam lv; paths and log_probs are the caller's vectors
TopPathsFrom(ns, lv, n, merge_repeated, paths, log_probs) ==
    IF TopPathsChecks(n, beam_width, Len(lv))
    THEN LET branches == Extract(ns, num_classes,
                                 PushAllFrom(ns, << >>, lv, 1, n))
         IN Returned("TopPaths", n, merge_repeated, FALSE,
                Cleared(paths) \o
                [i \in 1..n |-> LabelSeq(branches[i], merge_repeated)],
                Cleared(log_probs) \o
                [i \in 1..n |-> PathLogProb(ns[branches[i]])])
    ELSE Returned("TopPaths", n, merge_repeated, TRUE,
                  Cleared(paths), Cleared(log_probs))

\* the beam emptied by the ranking, as leaves_.Extract() would leave it
LeavesExtractedByTopPaths(lv) == << >>

\* the beam after TopPaths: the member function is const and reads leaves_
\* through unsorted_begin() and unsorted_end()
LeavesAfterTopPaths(lv) == lv

\* the caller's vectors: those of the previous call when it was TopPaths
TopPaths ==
    /\ ~aborted
    /\ \E n \in 0..(beam_width + 1), merge_repeated \in BOOLEAN :
          out' = TopPathsFrom(nodes, leaves, n, merge_repeated,
                              out.paths, out.log_probs)
    /\ aborted' = out'.failed
    /\ leaves' = LeavesAfterTopPaths(leaves)
    /\ UNCHANGED <<registry, kout, num_classes, beam_width, nodes, steps, history,
                   pushLog, dec>>

Next == Reset \/ Step \/ StepBadLength \/ TopPaths

Spec == Init /\ [][Next]_vars

----------------------------------------------------------------------------
(* Alignments over the label space {a, blank}: a decoder driven for up to
   MaxAlignSteps timesteps by vectors that put everything on one class *)

\* everything on a; everything on the blank; 0.7 on a and 0.3 on the blank
AlignInputs(len) ==
    {InputVector(len, 1, 10, 0), InputVector(len, len, 10, 0),
     InputVector(len, 1, 7, 3)}

InitAlign ==
    /\ \E bw \in 1..MaxBeamWidth : ConstructAndReset(2, bw)
    /\ NothingCalled

StepAlign ==
    /\ ~aborted
    /\ steps < MaxAlignSteps
    /\ \E raw_input \in AlignInputs(num_classes) :
          \E s \in {StepResult(raw_input)} :
             /\ nodes' = s.nodes
             /\ leaves' = s.leaves
             /\ pushLog' = s.log
             /\ history' = Append(history, raw_input)
    /\ steps' = steps + 1
    /\ out' = Returned("Step", 0, FALSE, FALSE, << >>, << >>)
    /\ UNCHANGED <<registry, kout, num_classes, beam_width, aborted, dec>>

NextAlign == StepAlign \/ TopPaths

SpecAlign == InitAlign /\ [][NextAlign]_vars

----------------------------------------------------------------------------
(* Properties *)

InBeam(n) == \E i \in 1..Len(leaves) : leaves[i] = n

\* a push of the last Step that found the beam full and so evicted its bottom
EvictingPush(i) ==
    /\ i \in 1..Len(pushLog)
    /\ pushLog[i].sizeBefore = beam_width

\* C1: after Reset and after every Step the beam (leaves_) holds at most
\* beam_width nodes.
C1_BeamWithinWidth == Len(leaves) <= beam_width

C1_Witness ==
    /\ steps >= 1
    /\ Len(leaves) = beam_width
    /\ \E i \in 1..Len(pushLog) : EvictingPush(i)

\* C2: after every Step every node held in the beam is active (its new.total
\* is above the sentinel).
C2_BeamMembersActive ==
    \A i \in 1..Len(leaves) : Active(nodes[leaves[i]])

\* C3: after every Step every active node of the tree is a member of the
\* beam; evicted nodes, children that failed the admission test and nodes
\* never admitted are inactive.
C3_ActiveNodesInBeam ==
    \A n \in DOMAIN nodes : Active(nodes[n]) => InBeam(n)

C3_Witness ==
    /\ steps >= 1
    /\ \E i \in 1..Len(pushLog) :
          /\ EvictingPush(i)
          /\ ~InBeam(pushLog[i].bottom)
          /\ ~Active(nodes[pushLog[i].bottom])
    /\ \E n \in DOMAIN nodes :
          n # Root /\ ~InBeam(n) /\ ~Active(nodes[n]) /\ InBeam(Parent(n))

\* C4: a push of an admitted child deactivates the node that was the beam
\* minimum before the push only if the beam was already full before the
\* push.
C4_ResetOnlyWhenFull ==
    \A i \in 1..Len(pushLog) :
        pushLog[i].reset => pushLog[i].sizeBefore = beam_width

\* C5: after Reset and after every Step every active node has
\* new.total = LogSumExp(new.blank, new.label).
C5_TotalIsLogSum ==
    \A n \in DOMAIN nodes :
        Active(nodes[n]) =>
            nodes[n].newp.total =
                LogSumExp(nodes[n].newp.blank, nodes[n].newp.label)

C5_Witness ==
    /\ steps >= 2
    /\ \E n \in DOMAIN nodes :
          /\ n # Root /\ Active(nodes[n])
          /\ nodes[n].newp.blank = kLogZero
    /\ \E n \in DOMAIN nodes :
          /\ Active(nodes[n])
          /\ LogGreater(nodes[n].newp.blank, kLogZero)
          /\ LogGreater(nodes[n].newp.label, kLogZero)

\* the last call was a TopPaths(n, ...) whose CHECKs passed
TopPathsReturned(n) == out.op = "TopPaths" /\ ~out.failed /\ out.n = n

\* label space {a, blank}; Reset, then one Step with P(a) = 0.3,
\* P(blank) = 0.7
OneStepExample ==
    /\ num_classes = 2
    /\ history = <<InputVector(2, 2, 7, 3)>>

\* C6: in the one-step example, for every beam_width >= 2, TopPaths(1)
\* returns the empty sequence, which ranks above [a].
C6_EmptyPathOnTop ==
    (OneStepExample /\ beam_width >= 2) =>
        /\ TopPathsReturned(1) => out.paths = << << >> >>
        /\ TopPathsReturned(2) => out.paths = << << >>, <<0>> >>

\* label space {a, blank}; Reset, then two Steps with
\* P = [[0.3, 0.7], [0.4, 0.6]]
TwoStepExample ==
    /\ num_classes = 2
    /\ history = <<InputVector(2, 2, 7, 3), InputVector(2, 2, 6, 4)>>

\* C7: in the two-step example TopPaths ranks [a] first and the empty
\* sequence second.
C7_LabelAboveEmpty ==
    (TwoStepExample /\ beam_width >= 2) =>
        /\ TopPathsReturned(1) => out.paths = << <<0>> >>
        /\ TopPathsReturned(2) => out.paths = << <<0>>, << >> >>

C7_Witness == TwoStepExample /\ beam_width >= 3 /\ TopPathsReturned(2)

RemovedMaxima == LogAdd(Norm(7, 10), Norm(6, 10))

C10_TooManyPathsFails ==
    out.op = "TopPaths" =>
        /\ (out.n > beam_width \/ out.n > Len(leaves)) =>
              /\ out.failed /\ aborted
              /\ out.paths = << >> /\ out.log_probs = << >>
        /\ beam_width = 1 =>
              /\ Len(out.paths) <= 1
              /\ out.n = 2 => out.failed

C10_Witness ==
    /\ steps >= 1
    /\ out.op = "TopPaths" /\ out.failed
    /\ out.n <= beam_width
    /\ out.n > Len(leaves)

----------------------------------------------------------------------------
(* Decode: a decoder made by the four-argument constructor, which leaves
   the tree and the beam empty, and one call of Decode on it, one action per
   statement of the loop over the batch *)

\* the log of a probability distribution over len classes with its peak on
\* class peak: 0.7 and 0.3 for two classes, 0.6, 0.2 and 0.2 for three
Distribution(len, peak) ==
    LET lo == 10 \div (len + 1)
    IN InputVector(len, peak, 10 - (len - 1) * lo, lo)

\* the peak on the first label; the peak on the blank; everything on the
\* first label
OnLabel(len) == Distribution(len, 1)
OnBlank(len) == Distribution(len, len)
AllOnLabel(len) == InputVector(len, 1, 10, 0)

\* the input of Decode: input[t] is a matrix with one row per batch element
DecodeInput(k, len) ==
    [t \in 1..MaxSeqLen |->
        [b \in 1..MaxBatch |->
            IF k = 0 THEN OnLabel(len)
            ELSE IF k = 1 THEN OnBlank(len)
            ELSE IF (t + b) % 2 = 0 THEN OnBlank(len)
            ELSE IF k = 2 THEN OnLabel(len) ELSE AllOnLabel(len)]]

DecodeInputs(len) == {DecodeInput(k, len) : k \in 0..3}

\* the sequence lengths Decode is called with: every element of full
\* length, or lengths that differ from one element to the next
SeqLens(batch_size) ==
    {[b \in 1..batch_size |-> MaxSeqLen]}
    \cup {[b \in 1..batch_size |-> (b + k) % (MaxSeqLen + 1)] :
             k \in 0..MaxSeqLen}

\* what a scorer may add at the end of a sequence: nothing, or log(1/2)
EndScores == {GetStateEndExpansionScore, Norm(1, 2)}

\* the sizes of the output vector Decode is called with
TopNs == {1, 2}

\* the content of an output or score slot Decode has not written
NoPath == <<-1>>
NoScore == <<-1, 1>>

\* the log-probability written as it is
NotNegated(x) == x

\* -x
Negate(x) == <<x[2], x[1]>>

\* entry->newp.total += beam_scorer_->GetStateEndExpansionScore(entry->state)
AddEndScore(total, end) == LogAdd(total, end)

\* the loop over the extracted branches at the end of a sequence
RECURSIVE FinalizeBranches(_, _, _, _)
FinalizeBranches(s, branches, i, end) ==
    IF i > Len(branches) THEN s
    ELSE LET e == branches[i]
             ns == [s.nodes EXCEPT ![e].newp.total = AddEndScore(@, end)]
         IN FinalizeBranches(
                [nodes |-> ns,
                 leaves |-> push(ns, num_classes, s.leaves,
                                 LeavesLimit(beam_width), e)],
                branches, i + 1, end)

\* leaves_.Extract(); leaves_.Reset(); the loop
FinalizeFrom(ns, lv, end) ==
    FinalizeBranches([nodes |-> ns, leaves |-> << >>],
                     Extract(ns, num_classes, lv), 1, end)

\* the inner loop ends one timestep early
StepsDoneOneEarly(t, seq_len_b) == t >= seq_len_b

\* t < seq_len_b is false; t counts from 1 here
StepsDone(t, seq_len_b) == t > seq_len_b

\* (*output)[i][b]
OutputSlot(i, b) == <<i, b>>

\* the score slot indexed the other way round
ScoreSlotSwapped(b, i) == <<i, b>>

\* (*scores)(b, i)
ScoreSlot(b, i) == <<b, i>>

\* CTCBeamSearchDecoder(num_classes, beam_width, batch_size, merge_repeated)
Construct4(nc, bw, batch_size, merge_repeated, end) ==
    /\ num_classes = nc
    /\ beam_width = bw
    /\ nodes = NoTree
    /\ leaves = << >>
    /\ out = Returned("Construct4", 0, FALSE, FALSE, << >>, << >>)
    /\ steps = 0
    /\ history = << >>
    /\ pushLog = << >>
    /\ aborted = FALSE
    /\ dec = [pc |-> "idle", batch_size |-> batch_size,
              merge_repeated |-> merge_repeated, end_score |-> end]
    /\ NoKernels

InitDecode ==
    \E nc \in 2..MaxClasses, bw \in 1..MaxBeamWidth,
       batch_size \in {1, MaxBatch}, merge_repeated \in BOOLEAN,
       end \in EndScores :
          Construct4(nc, bw, batch_size, merge_repeated, end)

\* Decode(seq_len, input, output, scores): top_n = output->size()
DecodeCall ==
    /\ ~aborted
    /\ dec.pc = "idle"
    /\ \E seq_len \in SeqLens(dec.batch_size),
          input \in DecodeInputs(num_classes), top_n \in TopNs :
          dec' = [pc |-> "loop", batch_size |-> dec.batch_size,
                  merge_repeated |-> dec.merge_repeated,
                  end_score |-> dec.end_score,
                  seq_len |-> seq_len, input |-> input, top_n |-> top_n,
                  b |-> 1, t |-> 1,
                  output |-> [slot \in (1..top_n) \X (1..dec.batch_size)
                                 |-> NoPath],
                  scores |-> [slot \in (1..dec.batch_size) \X (1..top_n)
                                 |-> NoScore],
                  trace |-> << >>]
    /\ UNCHANGED <<registry, kout, num_classes, beam_width, nodes, leaves, steps, history,
                   pushLog, out, aborted>>

\* b < batch_size_ holds: Reset()
DecodeReset ==
    /\ ~aborted
    /\ dec.pc = "loop"
    /\ dec.b <= dec.batch_size
    /\ \E r \in {ResetResult(nodes, leaves)} :
          nodes' = r.nodes /\ leaves' = r.leaves
    /\ steps' = 0
    /\ history' = << >>
    /\ pushLog' = << >>
    /\ dec' = [dec EXCEPT !.pc = "step", !.t = 1,
                          !.trace = Append(@, <<"Reset", dec.b>>)]
    /\ UNCHANGED <<registry, kout, num_classes, beam_width, out, aborted>>

\* Step(input[t].row(b))
DecodeStep ==
    /\ ~aborted
    /\ dec.pc = "step"
    /\ ~StepsDone(dec.t, dec.seq_len[dec.b])
    /\ \E s \in {StepFrom(nodes, leaves, dec.input[dec.t][dec.b])} :
          /\ nodes' = s.nodes
          /\ leaves' = s.leaves
          /\ pushLog' = s.log
    /\ history' = Append(history, dec.input[dec.t][dec.b])
    /\ steps' = steps + 1
    /\ dec' = [dec EXCEPT !.t = @ + 1,
                          !.trace = Append(@, <<"Step", dec.b, dec.t>>)]
    /\ UNCHANGED <<registry, kout, num_classes, beam_width, out, aborted>>

\* the finalization after the last Step of the sequence
DecodeFinalize ==
    /\ ~aborted
    /\ dec.pc = "step"
    /\ StepsDone(dec.t, dec.seq_len[dec.b])
    /\ \E s \in {FinalizeFrom(nodes, leaves, dec.end_score)} :
          nodes' = s.nodes /\ leaves' = s.leaves
    /\ dec' = [dec EXCEPT !.pc = "toppaths",
                          !.trace = Append(@, <<"Finalize", dec.b>>)]
    /\ UNCHANGED <<registry, kout, num_classes, beam_width, steps, history, pushLog, out,
                   aborted>>

\* TopPaths(top_n, &beams, &beam_log_probabilities, merge_repeated_)
DecodeTopPaths ==
    /\ ~aborted
    /\ dec.pc = "toppaths"
    /\ out' = TopPathsFrom(nodes, leaves, dec.top_n, dec.merge_repeated,
                           out.paths, out.log_probs)
    /\ aborted' = out'.failed
    /\ dec' = [dec EXCEPT !.pc = IF out'.failed THEN @ ELSE "write",
                          !.trace = Append(@, <<"TopPaths", dec.b,
                                               dec.top_n,
                                               dec.merge_repeated>>)]
    /\ leaves' = LeavesAfterTopPaths(leaves)
    /\ UNCHANGED <<registry, kout, num_classes, beam_width, nodes, steps, history, pushLog>>

\* the two CHECK_EQ on the sizes, then the loop that swaps beams[i] with
\* (*output)[i][b] and writes (*scores)(b, i); ++b
DecodeWrite ==
    /\ ~aborted
    /\ dec.pc = "write"
    /\ IF dec.top_n # Len(out.log_probs) \/ Len(out.paths) # Len(out.log_probs)
       THEN aborted' = TRUE /\ UNCHANGED <<dec, out>>
       ELSE /\ aborted' = FALSE
            /\ dec' = [dec EXCEPT
                 !.output = [slot \in DOMAIN @ |->
                     IF \E i \in 1..dec.top_n : OutputSlot(i, dec.b) = slot
                     THEN out.paths[CHOOSE i \in 1..dec.top_n :
                                       OutputSlot(i, dec.b) = slot]
                     ELSE @[slot]],
                 !.scores = [slot \in DOMAIN @ |->
                     IF \E i \in 1..dec.top_n : ScoreSlot(dec.b, i) = slot
                     THEN Negate(out.log_probs[CHOOSE i \in 1..dec.top_n :
                                       ScoreSlot(dec.b, i) = slot])
                     ELSE @[slot]],
                 !.b = @ + 1,
                 !.pc = "loop",
                 !.trace = Append(@, <<"Write", dec.b>>)]
            /\ out' = [out EXCEPT !.paths =
                          [i \in 1..dec.top_n |->
                              dec.output[OutputSlot(i, dec.b)]]]
    /\ UNCHANGED <<registry, kout, num_classes, beam_width, nodes, leaves, steps, history,
                   pushLog>>

\* b < batch_size_ fails: Decode returns
DecodeReturn ==
    /\ ~aborted
    /\ dec.pc = "loop"
    /\ dec.b > dec.batch_size
    /\ dec' = [dec EXCEPT !.pc = "done"]
    /\ UNCHANGED <<registry, kout, num_classes, beam_width, nodes, leaves, steps, history,
                   pushLog, out, aborted>>

NextDecode ==
    \/ DecodeCall
    \/ DecodeReset
    \/ DecodeStep
    \/ DecodeFinalize
    \/ DecodeTopPaths
    \/ DecodeWrite
    \/ DecodeReturn

SpecDecode == InitDecode /\ [][NextDecode]_vars

----------------------------------------------------------------------------
(* C11 *)

\* the only alignment with non-zero probability is [a, a, blank, a]
AlignmentExample ==
    /\ num_classes = 2
    /\ history = <<InputVector(2, 1, 10, 0), InputVector(2, 1, 10, 0),
                   InputVector(2, 2, 10, 0), InputVector(2, 1, 10, 0)>>

----------------------------------------------------------------------------
(* C12 *)

\* Decode has written the paths and scores of batch element b, and the
\* decoder still holds that element's beam and inputs
Written(b) == dec.pc \in {"loop", "done"} /\ dec.b = b + 1

NoOpScorer == dec.end_score = GetStateEndExpansionScore

\* x >= 0
NonNegative(x) == ~LogGreater(kLogOne, x)

\* the sum of the maxima Step removed from the vectors of h
RECURSIVE MaximaRemoved(_)
MaximaRemoved(h) ==
    IF h = << >> THEN kLogOne
    ELSE LogAdd(maxCoeff(h[1]), MaximaRemoved(Tail(h)))

----------------------------------------------------------------------------
(* C13 *)

\* the tree and the beam of a decoder of the same num_classes and
\* beam_width that was Reset and then given the vectors of h
RECURSIVE Replay(_)
Replay(h) ==
    IF h = << >> THEN ResetResult(NoTree, << >>)
    ELSE CHOOSE r \in {StepFrom(s.nodes, s.leaves, h[Len(h)]) :
                          s \in {Replay(SubSeq(h, 1, Len(h) - 1))}} : TRUE

----------------------------------------------------------------------------
(* C14 *)

\* the tree and the beam of a newly constructed decoder that was Reset,
\* given the vectors of h and finalized
FreshFinalized(h) ==
    CHOOSE f \in {FinalizeFrom(s.nodes, s.leaves, dec.end_score) :
                     s \in {Replay(h)}} : TRUE

\* C14: after the Reset that Decode does for a batch element, whatever was
\* decoded before it, the decoder goes through the states of a newly
\* constructed decoder given the same vectors, and TopPaths returns the
\* paths and log-probabilities it returns on that decoder.
C14_ResetForgets ==
    /\ dec.pc = "step" =>
          \E s \in {Replay(history)} :
             nodes = s.nodes /\ leaves = s.leaves
    /\ (dec.pc \in {"toppaths", "write"} \/ \E b \in 1..MaxBatch : Written(b)) =>
          \E f \in {FreshFinalized(history)} :
             /\ nodes = f.nodes
             /\ leaves = f.leaves
             /\ dec.pc = "write" =>
                   out = TopPathsFrom(f.nodes, f.leaves, dec.top_n,
                                      dec.merge_repeated, << >>, << >>)

\* TopPaths has returned for the second batch element, after Steps on the
\* first and on the second
C14_Witness ==
    /\ dec.pc = "write"
    /\ dec.b = 2
    /\ dec.seq_len[1] >= 1
    /\ steps >= 1

----------------------------------------------------------------------------
(* C15 *)

\* C15: a Step on a vector whose length is not num_classes fails and leaves
\* the beam, the tree and every probability as they were; a Step on a vector
\* of num_classes entries does the whole update.
C15_StepAllOrNothing ==
    [][/\ (out'.op = "Step" /\ out'.failed) =>
             /\ aborted'
             /\ nodes' = nodes
             /\ leaves' = leaves
       /\ (out'.op = "Step" /\ ~out'.failed) =>
             /\ Len(history') = Len(history) + 1
             /\ Len(history'[Len(history')]) = num_classes
             /\ \E s \in {StepFrom(nodes, leaves, history'[Len(history')])} :
                   nodes' = s.nodes /\ leaves' = s.leaves]_vars

\* a Step failed on a decoder whose beam held several hypotheses
C15_Witness ==
    /\ out.op = "Step"
    /\ out.failed
    /\ steps >= 1
    /\ Len(leaves) >= 2

----------------------------------------------------------------------------
(* C16 *)

\* the calls Decode is to make for batch element b
ElementTrace(b) ==
    <<<<"Reset", b>>>>
    \o [t \in 1..dec.seq_len[b] |-> <<"Step", b, t>>]
    \o <<<<"Finalize", b>>,
         <<"TopPaths", b, dec.top_n, dec.merge_repeated>>,
         <<"Write", b>>>>

RECURSIVE TraceUpTo(_)
TraceUpTo(b) == IF b = 0 THEN << >> ELSE TraceUpTo(b - 1) \o ElementTrace(b)

IsPrefix(a, c) == Len(a) <= Len(c) /\ SubSeq(c, 1, Len(a)) = a

\* the rows of batch element b, timesteps 1..seq_len[b]
RowsOf(b) == [t \in 1..dec.seq_len[b] |-> dec.input[t][b]]

\* C16: for each batch element b in turn Decode calls Reset, then Step on
\* the rows of b for timesteps 0..seq_len[b]-1 in increasing order, then the
\* finalization, then TopPaths(top_n, merge_repeated) once, and then writes
\* path i to output slot (i, b) and the negated log-probability of path i to
\* score slot (b, i).
C16_DecodeOrder ==
    dec.pc # "idle" =>
        /\ IsPrefix(dec.trace, TraceUpTo(dec.batch_size))
        /\ dec.pc = "done" => dec.trace = TraceUpTo(dec.batch_size)
        /\ \A b \in 1..dec.batch_size :
              ((dec.b = b /\ dec.pc \in {"toppaths", "write"}) \/ Written(b)) =>
                  history = RowsOf(b)
        /\ \A b \in 1..dec.batch_size :
              Written(b) =>
                  \E r \in {TopPathsFrom(nodes, leaves, dec.top_n,
                                         dec.merge_repeated, << >>, << >>)} :
                     \A i \in 1..dec.top_n :
                        /\ dec.output[OutputSlot(i, b)] = r.paths[i]
                        /\ dec.scores[ScoreSlot(b, i)] =
                              Negate(out.log_probs[i])
                        /\ out.log_probs[i] = r.log_probs[i]

\* Decode has returned after two batch elements with Steps on both, two
\* paths each
C16_Witness ==
    /\ dec.pc = "done"
    /\ dec.batch_size >= 2
    /\ dec.top_n = 2
    /\ dec.seq_len[1] >= 2
    /\ dec.seq_len[2] >= 1
    /\ dec.output[OutputSlot(2, 2)] # NoPath

----------------------------------------------------------------------------
(* C17 *)

\* what TopPaths returns on a newly constructed decoder that decoded the
\* rows of batch element b alone
Alone(b) ==
    CHOOSE r \in {TopPathsFrom(f.nodes, f.leaves, dec.top_n,
                               dec.merge_repeated, << >>, << >>) :
                     f \in {FreshFinalized(RowsOf(b))}} : TRUE

\* C17: the paths and scores Decode has written for batch element b, as
\* they are right after the write and when Decode returns, are those of a
\* decoder that decoded b's rows alone: they depend on no other element's
\* length or rows.
C17_ElementsIndependent ==
    dec.pc # "idle" =>
        \A b \in 1..dec.batch_size :
            (Written(b) \/ dec.pc = "done") =>
                \E r \in {Alone(b)} :
                    \A i \in 1..dec.top_n :
                        /\ dec.output[<<i, b>>] = r.paths[i]
                        /\ dec.scores[<<b, i>>] = Negate(r.log_probs[i])

\* Decode has returned after two batch elements of different rows and
\* different results
C17_Witness ==
    /\ dec.pc = "done"
    /\ dec.batch_size >= 2
    /\ dec.seq_len[1] >= 1
    /\ dec.seq_len[2] >= 1
    /\ RowsOf(1) # RowsOf(2)
    /\ dec.scores[<<1, 1>>] # dec.scores[<<2, 1>>]

----------------------------------------------------------------------------
(* C18 *)

\* the members of a beam
Members(lv) == {lv[i] : i \in 1..Len(lv)}

\* the step is the finalization of a sequence
Finalizing == dec.pc = "step" /\ dec'.pc = "toppaths"

\* C18: the finalization adds the scorer's end-of-sequence score once to
\* the new.total of every member of the beam, changes nothing else, and
\* leaves the beam with the same members, as many as before.
C18_FinalizeOnce ==
    [][Finalizing =>
          /\ DOMAIN nodes' = DOMAIN nodes
          /\ \A n \in DOMAIN nodes :
                nodes'[n] =
                   IF InBeam(n)
                   THEN [nodes[n] EXCEPT
                           !.newp.total = LogAdd(@, dec.end_score)]
                   ELSE nodes[n]
          /\ Members(leaves') = Members(leaves)
          /\ Len(leaves') = Len(leaves)]_vars

----------------------------------------------------------------------------
(* C19 *)

\* the alignments of k timesteps: a label or the blank at each
Alignments(k) == [1..k -> 0..(num_classes - 1)]

\* the label sequence an alignment collapses to: repeats merged, then
\* blanks removed
RECURSIVE Collapse(_, _)
Collapse(pi, i) ==
    IF i = 0 THEN << >>
    ELSE IF pi[i] = blank_index \/ (i > 1 /\ pi[i] = pi[i - 1])
         THEN Collapse(pi, i - 1)
         ELSE Append(Collapse(pi, i - 1), pi[i])

\* the product of the probabilities Step used along an alignment
RECURSIVE AlignmentProduct(_, _, _)
AlignmentProduct(pi, h, i) ==
    IF i = 0 THEN kLogOne
    ELSE LogAdd(AlignmentProduct(pi, h, i - 1), RemoveMax(h[i])[pi[i] + 1])

RECURSIVE SumOfProducts(_, _)
SumOfProducts(S, h) ==
    IF S = {} THEN kLogZero
    ELSE LET pi == CHOOSE x \in S : TRUE
         IN LogSumExp(AlignmentProduct(pi, h, Len(h)),
                      SumOfProducts(S \ {pi}, h))

\* the alignment ends in the blank (as the empty alignment does)
EndsInBlank(pi) == Len(pi) = 0 \/ pi[Len(pi)] = blank_index

CollapsingTo(prefix, h) ==
    {pi \in Alignments(Len(h)) : Collapse(pi, Len(h)) = prefix}

\* C19: with the no-op scorer and a beam that has never been full, after k
\* Steps from Reset every prefix in the beam has as total the sum over the
\* length-k alignments collapsing to it of the product of the probabilities
\* Step used, as blank and label the part of that sum over the alignments
\* ending in the blank and in its last label, and every prefix of non-zero
\* sum is in the beam.
C19_TotalsAreAlignmentSums ==
    Len(leaves) < beam_width =>
        /\ \A i \in 1..Len(leaves) :
              LET S == CollapsingTo(leaves[i], history)
                  p == nodes[leaves[i]].newp
              IN /\ p.total = SumOfProducts(S, history)
                 /\ p.blank =
                       SumOfProducts({pi \in S : EndsInBlank(pi)}, history)
                 /\ p.label =
                       SumOfProducts({pi \in S : ~EndsInBlank(pi)}, history)
        /\ \A pi \in Alignments(Len(history)) :
              LET prefix == Collapse(pi, Len(history))
              IN SumOfProducts(CollapsingTo(prefix, history), history)
                    # kLogZero => InBeam(prefix)

----------------------------------------------------------------------------
(* C20 *)

\* no Step since the last Reset
JustReset == history = << >>

\* C20: after Reset, whatever the state before it, the tree is one root with
\* the sentinel label and no children, new.total = 0 and new.blank = 0,
\* new.label and the old pair at log 0, the beam holds the root and nothing
\* else, and TopPaths(1) returns the empty sequence with log-probability 0.
C20_ResetState ==
    JustReset =>
        /\ DOMAIN nodes = {Root}
        /\ Label(Root) = -1
        /\ ~HasChildren(nodes, Root)
        /\ nodes[Root].newp.total = kLogOne
        /\ nodes[Root].newp.blank = kLogOne
        /\ nodes[Root].newp.label = kLogZero
        /\ nodes[Root].oldp = ResetProbability
        /\ leaves = <<Root>>
        /\ TopPathsReturned(1) =>
              /\ out.paths = << << >> >>
              /\ out.log_probs = <<kLogOne>>

\* TopPaths(1) has returned on a decoder that was just Reset
C20_Witness ==
    /\ JustReset
    /\ TopPathsReturned(1)
    /\ Len(out.paths) = 1

----------------------------------------------------------------------------
(* C21 *)

\* a decoder made by either constructor, then driven by Reset, Step and
\* TopPaths; the four-argument constructor is given a batch of one
InitConstruct ==
    \/ Init
    \/ \E nc \in 2..MaxClasses, bw \in 1..MaxBeamWidth :
          Construct4(nc, bw, 1, FALSE, GetStateEndExpansionScore)

NextConstruct == Reset \/ Step \/ TopPaths

SpecConstruct == InitConstruct /\ [][NextConstruct]_vars

\* nothing but TopPaths has been called since the constructor returned or
\* since the last Reset
NoStepYet == steps = 0

\* C21: a newly constructed decoder is in the Reset state whichever
\* constructor built it: its beam holds exactly the root, TopPaths(1) right
\* after construction returns what it returns right after Reset, and a Step
\* right after construction leaves the state that a Step after Reset leaves.
C21_ConstructedIsReset ==
    /\ out.op \in {"Construct2", "Construct4"} =>
          \E r \in {ResetResult(NoTree, << >>)} :
             nodes = r.nodes /\ leaves = r.leaves
    /\ (NoStepYet /\ out.op = "TopPaths" /\ out.n = 1) =>
          /\ ~out.failed
          /\ out.paths = << << >> >>
          /\ out.log_probs = <<kLogOne>>
    /\ (steps = 1 /\ out.op = "Step") =>
          \E s \in {Replay(history)} :
             nodes = s.nodes /\ leaves = s.leaves

----------------------------------------------------------------------------
(* C22 *)

\* the depth of a node below the root: the length of its unmerged label
\* sequence
Depth(n) == Len(LabelSeq(n, FALSE))

\* C22: after k Steps since the last Reset every node in the beam is at
\* depth at most k, and the tree holds no node deeper than k, so none was
\* ever admitted to the beam.
C22_DepthAtMostSteps ==
    /\ \A i \in 1..Len(leaves) : Depth(leaves[i]) <= steps
    /\ \A n \in DOMAIN nodes : Depth(n) <= steps

\* after two Steps or more a node as deep as the number of Steps is in the
\* beam
C22_Witness ==
    /\ steps >= 2
    /\ \E i \in 1..Len(leaves) :
          Depth(leaves[i]) = steps /\ Active(nodes[leaves[i]])

----------------------------------------------------------------------------
(* C23 *)

\* the labels met on the walk from n up to the root, the root left out
RECURSIVE ChainToRoot(_)
ChainToRoot(n) ==
    IF n = Root THEN << >> ELSE <<Label(n)>> \o ChainToRoot(Parent(n))

Reverse(s) == [i \in 1..Len(s) |-> s[Len(s) + 1 - i]]

\* s with every run of consecutive equal elements collapsed to one
RECURSIVE MergeRuns(_)
MergeRuns(s) ==
    IF Len(s) <= 1 THEN s
    ELSE IF s[1] = s[2] THEN MergeRuns(Tail(s))
         ELSE <<s[1]>> \o MergeRuns(Tail(s))

NoAdjacentEqual(s) == \A k \in 1..(Len(s) - 1) : s[k] # s[k + 1]

\* C23: every path TopPaths returns is that of a beam member with the
\* reported log-probability: without merge_repeated the labels of the
\* member's parent chain in root-to-node order, as many as its depth; with
\* merge_repeated that sequence with every run of equal labels collapsed to
\* one, so with no two adjacent equal labels.
C23_PathIsParentChain ==
    (out.op = "TopPaths" /\ ~out.failed) =>
        \A i \in 1..out.n :
            \E k \in 1..Len(leaves) :
                LET chain == Reverse(ChainToRoot(leaves[k]))
                IN /\ out.log_probs[i] = nodes[leaves[k]].newp.total
                   /\ Len(chain) = Len(leaves[k])
                   /\ IF out.merge_repeated
                      THEN /\ out.paths[i] = MergeRuns(chain)
                           /\ NoAdjacentEqual(out.paths[i])
                      ELSE out.paths[i] = chain

\* with merge_repeated two paths were returned, one of them for a member
\* whose chain repeats a label
C23_Witness ==
    /\ TopPathsReturned(2)
    /\ out.merge_repeated
    /\ \E k \in 1..Len(leaves) :
          /\ ~NoAdjacentEqual(leaves[k])
          /\ \E i \in 1..2 :
                /\ out.paths[i] = MergeRuns(leaves[k])
                /\ out.log_probs[i] = nodes[leaves[k]].newp.total
                /\ out.log_probs[3 - i] # out.log_probs[i]

----------------------------------------------------------------------------
(* C24 *)

\* the step is a Step on a vector of num_classes entries
StepTaken == Len(history') = Len(history) + 1

\* the branches that Step extracts from the beam
Branches == Extract(nodes, num_classes, leaves)

\* Step when its loop over the branches that grows new leaves reaches
\* branch i
AtBranch(i) ==
    LET input == RemoveMax(history'[Len(history')])
        s0 == [nodes |-> ShiftProbabilities(nodes, Branches),
               leaves |-> << >>, log |-> << >>]
    IN GrowBranches(UpdateBranches(s0, Branches, 1, input),
                    SubSeq(Branches, 1, i - 1), 1, input)

\* for each branch, whether its old probabilities pass the admission test
\* when its turn comes
Admissions ==
    [i \in 1..Len(Branches) |->
        CHOOSE r \in {is_candidate(s, s.nodes[Branches[i]].oldp) :
                         s \in {AtBranch(i)}} : TRUE]

\* the labels of the children a node has in the tree ns
ChildLabels(ns, n) == {l \in 0..num_classes : Append(n, l) \in DOMAIN ns}

\* the children every node of ns has are none, or those of the labels
\* 0..num_classes-2
ChildrenComplete(ns) ==
    \A n \in DOMAIN ns :
        ChildLabels(ns, n) \in {{}, 0..(num_classes - 2)}

\* C24 as stated: children are made at most once per node, as the
\* num_classes-1 children of labels 0..num_classes-2, and in a Step only for
\* an extracted branch whose old probabilities pass the admission test; a
\* node that fails the test, or was not extracted, gets no children and none
\* of its children changes in that Step.
C24_ChildrenOnlyWhenAdmitted ==
    [][StepTaken =>
          \E adm \in {Admissions} :
             LET admitted(b) ==
                     \E i \in 1..Len(Branches) : Branches[i] = b /\ adm[i]
             IN /\ ChildrenComplete(nodes')
                /\ DOMAIN nodes \subseteq DOMAIN nodes'
                /\ \A b \in DOMAIN nodes :
                      IF admitted(b)
                      THEN ChildLabels(nodes', b) = 0..(num_classes - 2)
                      ELSE /\ ChildLabels(nodes', b) = ChildLabels(nodes, b)
                           /\ \A l \in ChildLabels(nodes, b) :
                                 nodes'[Append(b, l)] = nodes[Append(b, l)]
         ]_vars

\* C24 amended: as stated, but of the children of a node that fails the
\* test or was not extracted, only those outside the beam at the start of
\* the Step are left alone: a child that is itself in the beam is updated by
\* the Step as every beam member is.
C24_ChildrenOutsideBeamUntouched ==
    [][StepTaken =>
          \E adm \in {Admissions} :
             LET admitted(b) ==
                     \E i \in 1..Len(Branches) : Branches[i] = b /\ adm[i]
             IN /\ ChildrenComplete(nodes')
                /\ DOMAIN nodes \subseteq DOMAIN nodes'
                /\ \A b \in DOMAIN nodes :
                      IF admitted(b)
                      THEN ChildLabels(nodes', b) = 0..(num_classes - 2)
                      ELSE /\ ChildLabels(nodes', b) = ChildLabels(nodes, b)
                           /\ \A l \in ChildLabels(nodes, b) :
                                 ~InBeam(Append(b, l)) =>
                                    nodes'[Append(b, l)] = nodes[Append(b, l)]
         ]_vars

\* the tree and the beam before the last Step
BeforeLastStep ==
    CHOOSE r \in {Replay(SubSeq(history, 1, Len(history) - 1))} : TRUE

\* in the last Step a branch got its children, an extracted branch failed
\* the test and got none, and a beam member whose parent was not extracted
\* was updated
C24_Witness ==
    /\ dec.pc = "step"
    /\ steps >= 2
    /\ \E pre \in {BeforeLastStep} :
          /\ \E b \in Members(pre.leaves) :
                ~HasChildren(pre.nodes, b) /\ HasChildren(nodes, b)
          /\ \E b \in Members(pre.leaves) : ~HasChildren(nodes, b)
          /\ \E c \in Members(pre.leaves) :
                /\ c # Root
                /\ Parent(c) \notin Members(pre.leaves)
                /\ nodes[c] # pre.nodes[c]

----------------------------------------------------------------------------
(* C25 *)

\* the step is a call of TopPaths
TopPathsCalled == out'.op = "TopPaths" /\ steps' = steps

\* C25: TopPaths changes nothing in the decoder: the beam, every node's old
\* and new probabilities and the tree are after the call what they were
\* before it, so a second call with the same arguments returns the same
\* result, and the state after Steps with TopPaths calls between them is the
\* one the same Steps reach without them.
C25_TopPathsChangesNothing ==
    /\ [][TopPathsCalled =>
             /\ nodes' = nodes
             /\ leaves' = leaves
             /\ history' = history
             /\ out' = TopPathsFrom(nodes', leaves', out'.n,
                                    out'.merge_repeated,
                                    out'.paths, out'.log_probs)
          ]_vars
    /\ [](out.op = "TopPaths" =>
             \E s \in {Replay(history)} :
                nodes = s.nodes /\ leaves = s.leaves)

\* TopPaths has returned two paths after Steps that left several members in
\* the beam
C25_Witness ==
    /\ steps >= 2
    /\ TopPathsReturned(2)
    /\ Len(leaves) >= 2
    /\ Len(out.paths) = 2

----------------------------------------------------------------------------
(* C26 *)

\* the frame of a Step: a node that is not in the beam at the start of the
\* Step and whose parent is not either keeps its old and new probabilities
OnlyBeamAndChildrenChange ==
    \A n \in DOMAIN nodes :
        (~InBeam(n) /\ (n = Root \/ ~InBeam(Parent(n)))) =>
            nodes'[n] = nodes[n]

\* C26 as stated: a Step changes only nodes that were in the beam at its
\* start and children of those nodes; and for every node that was in the
\* beam at the start of the Step, old after the Step is its new from before.
C26_StepFrame ==
    [][StepTaken =>
          /\ OnlyBeamAndChildrenChange
          /\ \A n \in DOMAIN nodes :
                InBeam(n) => nodes'[n].oldp = nodes[n].newp
         ]_vars

\* C26 amended: a Step changes only nodes that were in the beam at its start
\* and children of those nodes; and for every node that was in the beam at
\* the start of the Step, old after the Step is its new from before, unless
\* the loop that grows new leaves deactivated it as a rejected child: then
\* its old and new pairs are both reset and it is inactive.
C26_StepFrameButDeactivated ==
    [][StepTaken =>
          /\ OnlyBeamAndChildrenChange
          /\ \A n \in DOMAIN nodes :
                InBeam(n) =>
                    \/ nodes'[n].oldp = nodes[n].newp
                    \/ /\ n # Root
                       /\ nodes'[n].oldp = ResetProbability
                       /\ nodes'[n].newp = ResetProbability
         ]_vars

\* the last Step shifted the pair of one beam member, reset the old pair of
\* another that was active, and left alone a node outside the beam
C26_Witness ==
    /\ out.op = "Step"
    /\ steps >= 2
    /\ \E pre \in {BeforeLastStep} :
          /\ \E n \in Members(pre.leaves) :
                /\ Active(pre.nodes[n])
                /\ nodes[n].oldp = pre.nodes[n].newp
          /\ \E n \in Members(pre.leaves) :
                /\ Active(pre.nodes[n])
                /\ nodes[n].oldp = ResetProbability
          /\ \E n \in DOMAIN pre.nodes :
                /\ n \notin Members(pre.leaves)
                /\ n # Root
                /\ Parent(n) \notin Members(pre.leaves)
                /\ nodes[n] = pre.nodes[n]

----------------------------------------------------------------------------
(* C27 *)

\* C27: after Reset and after every Step no node is held in the beam more
\* than once, and TopPaths never returns the same hypothesis twice.
C27_BeamHasNoRepeats ==
    /\ \A i, j \in 1..Len(leaves) : leaves[i] = leaves[j] => i = j
    /\ (out.op = "TopPaths" /\ ~out.failed /\ ~out.merge_repeated) =>
          \A i, j \in 1..Len(out.paths) :
              out.paths[i] = out.paths[j] => i = j

----------------------------------------------------------------------------
(* C28 *)

----------------------------------------------------------------------------
(* C29 *)

\* the number of positions of n where the label equals the one before it
Repeats(n) == Cardinality({i \in 2..Len(n) : n[i] = n[i - 1]})

\* C29: after k Steps since Reset every node in the beam whose label
\* sequence has length d and r positions where a label equals the one before
\* it has d + r <= k: a repeated label needs a blank timestep between, so
\* [a, a] is not in the beam after two Steps.
C29_RepeatsNeedBlank ==
    /\ \A i \in 1..Len(leaves) :
          Len(leaves[i]) + Repeats(leaves[i]) <= steps
    /\ steps <= 2 => ~InBeam(<<0, 0>>)

\* [a, a] is in the beam, active, after three Steps
C29_Witness ==
    /\ steps = 3
    /\ InBeam(<<0, 0>>)
    /\ Active(nodes[<<0, 0>>])

----------------------------------------------------------------------------
(* C30 *)

\* C30: every label in every path TopPaths returns lies in
\* 0..num_classes-2: neither the blank index nor the root's label -1 is in
\* an output, and the root contributes no label: a path is no longer than
\* the number of Steps, and empty when the beam holds the root alone.
C30_LabelsInRange ==
    /\ \A n \in DOMAIN nodes :
          n # Root => Label(n) \in 0..(num_classes - 2)
    /\ (out.op = "TopPaths" /\ ~out.failed) =>
          /\ \A i \in 1..Len(out.paths) :
                /\ \A k \in 1..Len(out.paths[i]) :
                      /\ out.paths[i][k] \in 0..(num_classes - 2)
                      /\ out.paths[i][k] # blank_index
                      /\ out.paths[i][k] # Label(Root)
                /\ Len(out.paths[i]) <= steps
          /\ leaves = <<Root>> =>
                \A i \in 1..Len(out.paths) : out.paths[i] = << >>

\* TopPaths has returned the root's empty path next to a path of two labels
C30_Witness ==
    /\ TopPathsReturned(3)
    /\ \E i \in 1..3 : out.paths[i] = << >>
    /\ \E i \in 1..3 : Len(out.paths[i]) = 2

----------------------------------------------------------------------------
(* Registering and looking up kernels (op_kernel.cc) *)

Constraint(name, allowed_values) ==
    [name |-> name, allowed_values |-> allowed_values]

KernelDef(op, device_type, label, constraint) ==
    [op |-> op, device_type |-> device_type, label |-> label,
     constraint |-> constraint]

\* the kernels a program registers for MatMul: one for any node, one for
\* float, one whose constraint allows no type at all, one on the GPU for
\* both types, and one under the label "eigen"
KernelDefs ==
    { KernelDef("MatMul", "CPU", "", << >>),
      KernelDef("MatMul", "CPU", "",
                <<Constraint("T", <<"DT_FLOAT">>)>>),
      KernelDef("MatMul", "CPU", "", <<Constraint("T", << >>)>>),
      KernelDef("MatMul", "GPU", "",
                <<Constraint("T", <<"DT_FLOAT", "DT_INT32">>)>>),
      KernelDef("MatMul", "CPU", "eigen",
                <<Constraint("T", <<"DT_FLOAT">>)>>) }

NodeDef(op, attr) == [op |-> op, attr |-> attr]

\* the nodes looked up: T a type, T a list of types, T of another kind,
\* T absent, and a node that asks for the label "eigen"
NodeDefs ==
    { NodeDef("MatMul", "T" :> TypeAttr("DT_FLOAT")),
      NodeDef("MatMul", "T" :> TypeAttr("DT_INT32")),
      NodeDef("MatMul", "T" :> TypeListAttr(<<"DT_FLOAT", "DT_INT32">>)),
      NodeDef("MatMul", "T" :> IntAttr),
      NodeDef("MatMul", << >>),
      NodeDef("MatMul", "T" :> TypeAttr("DT_FLOAT")
                        @@ "_kernel" :> StringAttr("eigen")) }

DeviceTypes == {"CPU", "GPU"}

\* the step of CreateOpKernel outside this file that fails, with the code
\* it reports
Environments ==
    { [fail |-> "none", code |-> "OK"],
      [fail |-> "op", code |-> "NOT_FOUND"],
      [fail |-> "node", code |-> "INVALID_ARGUMENT"],
      [fail |-> "inout", code |-> "INVALID_ARGUMENT"],
      [fail |-> "memtypes", code |-> "INVALID_ARGUMENT"],
      [fail |-> "construct", code |-> "INVALID_ARGUMENT"] }

\* the name of the class, and of the factory, registered for a kernel
ClassName(kernel_def) ==
    kernel_def.op \o "Op" \o kernel_def.device_type \o kernel_def.label

\* one decoder at rest, an empty registry, nothing looked up yet
InitKernel ==
    /\ ConstructAndReset(2, 1)
    /\ NothingCalled

DecoderUnchanged ==
    UNCHANGED <<num_classes, beam_width, nodes, leaves, steps, history,
                pushLog, out, aborted, dec>>

\* OpKernelRegistrar::InitInternal: one more entry in the registry
Register ==
    /\ Len(registry) < MaxRegistrations
    /\ \E kernel_def \in KernelDefs :
          registry' = Append(registry,
                             [def |-> kernel_def,
                              kernel_class_name |-> ClassName(kernel_def),
                              factory |-> ClassName(kernel_def)])
    /\ kout' = NoKernelCall
    /\ DecoderUnchanged

\* the lookups made: every node on the CPU, and on the GPU the nodes whose
\* T is float or a list
Lookups ==
    { l \in DeviceTypes \X NodeDefs :
         l[1] = "GPU" =>
            /\ DOMAIN l[2].attr = {"T"}
            /\ l[2].attr["T"] \in {TypeAttr("DT_FLOAT"),
                                   TypeListAttr(<<"DT_FLOAT", "DT_INT32">>)} }

FindKernelDefCall ==
    /\ \E l \in Lookups : kout' = FindKernelDef(registry, l[1], l[2])
    /\ UNCHANGED registry
    /\ DecoderUnchanged

\* the overload that returns a unique_ptr
CreateOpKernelCall ==
    /\ \E l \in Lookups, env \in Environments :
          kout' = CreateOpKernelPtr(registry, l[1], l[2], env)
    /\ UNCHANGED registry
    /\ DecoderUnchanged

NextKernel == Register \/ FindKernelDefCall \/ CreateOpKernelCall

SpecKernel == InitKernel /\ [][NextKernel]_vars

KernelTypeOK ==
    /\ Len(registry) <= MaxRegistrations
    /\ kout.status \in {"OK", "NOT_FOUND", "INVALID_ARGUMENT",
                        "UNIMPLEMENTED"}
    /\ kout.reg \in 0..Len(registry)

----------------------------------------------------------------------------
(* C31 *)

\* the last call reached the lookup of a registration
LookedUp ==
    \/ kout.op = "FindKernelDef"
    \/ kout.op = "CreateOpKernel" /\ kout.fail \notin {"op", "node"}

\* the places in the registry filed under the key of the last call
UnderKey ==
    { i \in 1..Len(registry) :
         /\ registry[i].def.op = kout.node_def.op
         /\ registry[i].def.device_type = kout.device_type
         /\ registry[i].def.label = KernelLabel(kout.node_def) }

\* those of them that match the node's attributes
Matching ==
    { i \in UnderKey : AttrsMatch(kout.node_def, registry[i].def).match }

\* those of them whose attribute check ends in an error
Erring ==
    { i \in UnderKey :
         AttrsMatch(kout.node_def, registry[i].def).status # "OK" }

\* C31, as stated: a lookup selects a registration only when it is the one
\* registration under the key that matches the node's attributes; with two
\* or more matches the call returns InvalidArgument whatever the order of
\* the registry; with none it returns NotFound and invokes no factory.
C31_OneMatchOrError ==
    LookedUp =>
       /\ kout.reg # 0 => Matching = {kout.reg}
       /\ Cardinality(Matching) >= 2 => kout.status = "INVALID_ARGUMENT"
       /\ Matching = {} =>
             /\ kout.status = "NOT_FOUND"
             /\ kout.factory = ""

\* the first place of S, or one past the registry when S is empty
First(S) ==
    IF S = {} THEN Len(registry) + 1
    ELSE CHOOSE i \in S : \A j \in S : i <= j

\* the place of the second match
SecondMatch == First(Matching \ {First(Matching)})

\* C31, amended: the registrations under the key are tried in order, and
\* the call ends at the first one whose attribute check fails, with that
\* check's error, or at the second match, with InvalidArgument, whichever
\* comes first; in both cases no registration is selected and no factory
\* invoked.  Otherwise no match gives NotFound and no factory, and the one
\* match is the registration selected.
C31_FirstErrorOrSecondMatch ==
    LookedUp =>
       IF SecondMatch < First(Erring)
       THEN kout.status = "INVALID_ARGUMENT" /\ kout.reg = 0
               /\ kout.factory = ""
       ELSE IF Erring # {}
       THEN /\ kout.status =
                  AttrsMatch(kout.node_def,
                             registry[First(Erring)].def).status
            /\ kout.reg = 0
            /\ kout.factory = ""
       ELSE IF Matching = {}
       THEN kout.status = "NOT_FOUND" /\ kout.reg = 0 /\ kout.factory = ""
       ELSE /\ Matching = {kout.reg}
            /\ kout.op = "FindKernelDef" => kout.status = "OK"
            /\ (kout.op = "CreateOpKernel" /\ kout.fail = "none") =>
                  /\ kout.status = "OK"
                  /\ kout.factory = registry[kout.reg].factory

\* CreateOpKernel has returned Unimplemented for a node that two
\* registrations match, because a registration whose constraint allows no
\* type came before the second of them
C31_Witness ==
    /\ kout.op = "CreateOpKernel"
    /\ LookedUp
    /\ Cardinality(Matching) = 2
    /\ First(Erring) < SecondMatch
    /\ kout.status = "UNIMPLEMENTED"
    /\ kout.factory = ""

----------------------------------------------------------------------------
(* C32 *)

\* C32: the unique_ptr overload of CreateOpKernel never hands back a kernel
\* together with an error: when the status is not OK (unknown op, invalid
\* node, no or ambiguous registration, a failure before or during the
\* kernel's construction) the kernel is null; a kernel is deleted exactly
\* when its construction recorded an error; and with status OK the kernel
\* is the one the selected registration's factory made.
C32_NoKernelWithError ==
    kout.op = "CreateOpKernel" =>
       /\ kout.status # "OK" => kout.kernel = 0
       /\ kout.deleted <=>
             /\ kout.fail = "construct"
             /\ kout.factory # ""
       /\ kout.deleted => kout.status # "OK" /\ kout.kernel = 0
       /\ kout.status = "OK" =>
             /\ kout.kernel = 1
             /\ kout.reg # 0
             /\ kout.factory = registry[kout.reg].factory

\* a factory made a kernel whose construction recorded an error: the kernel
\* was deleted and the caller got null with the error
C32_Witness ==
    /\ kout.op = "CreateOpKernel"
    /\ kout.fail = "construct"
    /\ kout.factory # ""
    /\ kout.deleted
    /\ kout.status = "INVALID_ARGUMENT"
    /\ kout.kernel = 0

====
